---- MODULE Spec2Model ----
(***************************************************************************)
(* CacheCraft backend (src/backend/app.py): a per-user query cache with a  *)
(* 300 s TTL, difflib fuzzy key matching, a bounded hit log, analytics     *)
(* counters and a background prediction/prefetch thread per search.        *)
(*                                                                         *)
(* Strings are sequences of one-character strings, so that strip(),        *)
(* lower() and difflib's SequenceMatcher are computed, not assumed.        *)
(* Confidences and the threshold are Python floats with one decimal; they  *)
(* are held in tenths (0.6 is 6), which keeps their order.                 *)
(***************************************************************************)
EXTENDS Integers, Sequences, FiniteSets, TLC

\* ------------------------------------------------------------ bounds
\* Requests (search, refresh, set_confidence) issued in one run.
MaxReq == 3
\* Background prefetch threads alive at the same time.
MaxTasks == 2
\* The clock is read at the instants e * CACHE_EXPIRY_SECONDS + {-1, 0}, e <= MaxEpoch.
MaxEpoch == 1
\* Searches of the history specification (more than the hit log holds).
MaxHistReq == 12
\* Search handlers running at the same time in the concurrent specification.
MaxThreads == 2
\* Requests issued in one run of the concurrent specification.
MaxConcReq == 3

\* ------------------------------------------------- program constants
CACHE_EXPIRY_SECONDS == 300
N_HISTORY == 3
HIT_LOG_MAX == 10
\* PREFETCH_CONFIDENCE_THRESHOLD = 0.6 at start, in tenths
INITIAL_THRESHOLD == 6
\* pred.get("confidence", 1.0), in tenths
DEFAULT_CONFIDENCE == 10
\* difflib cutoff=0.85 as the fraction CUTOFF_NUM / CUTOFF_DEN
CUTOFF_NUM == 17
CUTOFF_DEN == 20
\* simulated latencies in ms, for the dashboard's average
SIM_BACKEND_LATENCY == 500
SIM_CACHE_LATENCY == 30

\* ------------------------------------------------------------ inputs
Users == {"alice", "bob"}

QAbc    == <<"a", "b", "c">>
QAbcRaw == <<" ", "A", "b", "c">>
QAbcd   == <<"a", "b", "c", "d">>
QAbcde  == <<"a", "b", "c", "d", "e">>

\* Raw query texts a client sends; QAbcRaw normalizes to QAbc, and QAbcde is a
\* text only the predictor comes up with.
Queries == {QAbcRaw, QAbcd}

\* Clock readings (int(time.time())), around the multiples of the TTL.
TimePoints ==
    {t \in {e * CACHE_EXPIRY_SECONDS + d : e \in 0..MaxEpoch, d \in {-1, 0}} : t >= 0}

\* ---------------------------------------------------- str operations
IsSpace(c) == c = " "

Lower(c) == IF c = "A" THEN "a" ELSE c

\* Code points, for Python's string comparison.
Ord(c) ==
    CASE c = " " -> 32
      [] c = "A" -> 65
      [] c = "a" -> 97
      [] c = "b" -> 98
      [] c = "c" -> 99
      [] c = "d" -> 100
      [] c = "e" -> 101

RECURSIVE LStrip(_)
LStrip(s) ==
    IF s # <<>> /\ IsSpace(Head(s)) THEN LStrip(Tail(s)) ELSE s

RECURSIVE RStrip(_)
RStrip(s) ==
    IF s # <<>> /\ IsSpace(s[Len(s)]) THEN RStrip(SubSeq(s, 1, Len(s) - 1)) ELSE s

\* query.strip().lower()
normalize_query(query) ==
    LET t == RStrip(LStrip(query))
    IN  [i \in 1..Len(t) |-> Lower(t[i])]

\* s < t for Python str (lexicographic by code point)
RECURSIVE StrLess(_, _)
StrLess(s, t) ==
    IF t = <<>> THEN FALSE
    ELSE IF s = <<>> THEN TRUE
    ELSE IF Ord(Head(s)) # Ord(Head(t)) THEN Ord(Head(s)) < Ord(Head(t))
    ELSE StrLess(Tail(s), Tail(t))

\* ------------------------------------------- difflib.SequenceMatcher
\* Positions are 1-based, ranges are lo..hi-1 as in difflib.
RECURSIVE RunLen(_, _, _, _, _, _)
RunLen(a, b, i, j, ahi, bhi) ==
    IF i < ahi /\ j < bhi /\ a[i] = b[j]
    THEN 1 + RunLen(a, b, i + 1, j + 1, ahi, bhi)
    ELSE 0

\* find_longest_match: the longest common block, the earliest in a, then in b.
find_longest_match(a, b, alo, ahi, blo, bhi) ==
    LET blocks == {<<i, j, RunLen(a, b, i, j, ahi, bhi)>> :
                       i \in alo..(ahi - 1), j \in blo..(bhi - 1)}
        sizes == {m[3] : m \in blocks} \cup {0}
        bestsize == CHOOSE k \in sizes : \A k2 \in sizes : k2 <= k
        best == {m \in blocks : m[3] = bestsize}
    IN  IF bestsize = 0 THEN <<alo, blo, 0>>
        ELSE CHOOSE m \in best :
                 \A m2 \in best : m[1] < m2[1] \/ (m[1] = m2[1] /\ m[2] <= m2[2])

\* get_matching_blocks: the sum of the sizes of the blocks found recursively.
RECURSIVE Matches(_, _, _, _, _, _)
Matches(a, b, alo, ahi, blo, bhi) ==
    LET m == find_longest_match(a, b, alo, ahi, blo, bhi)
        i == m[1]
        j == m[2]
        k == m[3]
    IN  IF k = 0 THEN 0
        ELSE k
             + (IF alo < i /\ blo < j THEN Matches(a, b, alo, i, blo, j) ELSE 0)
             + (IF i + k < ahi /\ j + k < bhi
                THEN Matches(a, b, i + k, ahi, j + k, bhi) ELSE 0)

\* ratio() = 2.0 * matches / (len(a) + len(b)), 1.0 for two empty strings,
\* as the pair <<numerator, denominator>>.
Ratio(a, b) ==
    IF Len(a) + Len(b) = 0 THEN <<1, 1>>
    ELSE <<2 * Matches(a, b, 1, Len(a) + 1, 1, Len(b) + 1), Len(a) + Len(b)>>

\* ratio() >= cutoff
AtLeastCutoff(r) == r[1] * CUTOFF_DEN >= CUTOFF_NUM * r[2]

\* (score, x) < (score2, x2) as Python compares the tuples
ScoredLess(x, y, word) ==
    LET rx == Ratio(x, word)
        ry == Ratio(y, word)
    IN  \/ rx[1] * ry[2] < ry[1] * rx[2]
        \/ rx[1] * ry[2] = ry[1] * rx[2] /\ StrLess(x, y)

\* difflib.get_close_matches(word, possibilities, n=1, cutoff=0.85):
\* the empty set, or the one best possibility. seq2 is word, seq1 is x.
get_close_matches(word, possibilities) ==
    LET close == {x \in possibilities : AtLeastCutoff(Ratio(x, word))}
    IN  {x \in close : \A y \in close : y = x \/ ScoredLess(y, x, word)}

\* ------------------------------------------------------------- state
VARIABLES
    now,                            \* int(time.time())
    PREFETCH_CONFIDENCE_THRESHOLD,  \* the process-wide threshold, in tenths
    USER_CACHE,                     \* user -> (normalized key -> entry)
    USER_HIT_LOG,                   \* user -> list of {query, source, time}
    USER_PREDICTIONS,               \* user -> list of candidates
    USER_ANALYTICS,                 \* user -> the three counters
    tasks,                          \* the predict_and_prefetch threads
    threads,                        \* search handlers in progress (concurrent specification)
    resp,                           \* the response of the last request served
    nreq,                           \* requests served so far
    trace                           \* user -> every record ever appended to the hit log

vars == <<now, PREFETCH_CONFIDENCE_THRESHOLD, USER_CACHE, USER_HIT_LOG, USER_PREDICTIONS,
          USER_ANALYTICS, tasks, threads, resp, nreq, trace>>

\* d[k] = v on a dict
Put(d, k, v) == [x \in DOMAIN d \cup {k} |-> IF x = k THEN v ELSE d[x]]

NoAnalytics == [api_calls_saved |-> 0, total_backend_calls |-> 0, total_cache_hits |-> 0]

\* No answer of the LLM service at hand.
NoReply == [kind |-> "none", content |-> <<>>]

IdleTask == [pc |-> "idle", user |-> "", history |-> <<>>, preds |-> <<>>, idx |-> 0, now |-> 0,
             reply |-> NoReply]

IdleThread == [pc |-> "idle", user |-> "", query |-> <<>>, source |-> "", result |-> <<>>,
               now |-> 0, field |-> "", tmp |-> 0]

NoResp == [op |-> "none"]

\* What the LLM call can come back with: nothing (any failure); a 0.5
\* candidate followed by one at the default threshold whose text needs
\* normalizing; a candidate without a confidence followed by one without a
\* query.
PredLists ==
    { <<>>,
      <<[query |-> QAbcd, confidence |-> 5], [query |-> QAbcRaw, confidence |-> 6]>>,
      <<[query |-> QAbcde], [confidence |-> 9]>> }

\* Bodies posted to /set_confidence: {"confidence": 0.4} and {"confidence": 1},
\* whose value json parses to an int. Values are held in tenths.
ConfInputs ==
    { [type |-> "float", val |-> 4],
      [type |-> "int", val |-> 10] }

Init ==
    /\ now = 0
    /\ PREFETCH_CONFIDENCE_THRESHOLD = INITIAL_THRESHOLD
    /\ USER_CACHE = <<>>
    /\ USER_HIT_LOG = <<>>
    /\ USER_PREDICTIONS = <<>>
    /\ USER_ANALYTICS = <<>>
    /\ tasks = [i \in 1..MaxTasks |-> IdleTask]
    /\ threads = [i \in 1..MaxThreads |-> IdleThread]
    /\ resp = NoResp
    /\ nreq = 0
    /\ trace = [u \in Users |-> <<>>]

\* ------------------------------------------------------------ helpers
\* Live with the boundary second counted as live.
LiveInclusive(entry, t) == (t - entry.timestamp) <= CACHE_EXPIRY_SECONDS

\* (now - entry["timestamp"]) < CACHE_EXPIRY_SECONDS
Live(entry, t) == (t - entry.timestamp) < CACHE_EXPIRY_SECONDS

\* The four per-user dicts after get_user_data(user).
get_user_data(user) ==
    IF user \notin DOMAIN USER_CACHE
    THEN [cache |-> Put(USER_CACHE, user, <<>>),
          hit_log |-> Put(USER_HIT_LOG, user, <<>>),
          predictions |-> Put(USER_PREDICTIONS, user, <<>>),
          analytics |-> Put(USER_ANALYTICS, user, NoAnalytics)]
    ELSE [cache |-> USER_CACHE,
          hit_log |-> USER_HIT_LOG,
          predictions |-> USER_PREDICTIONS,
          analytics |-> USER_ANALYTICS]

\* The entry a miss stores.
BackendEntry(query, t) ==
    [result |-> <<"Backend result for", query>>,
     timestamp |-> t,
     expiry |-> CACHE_EXPIRY_SECONDS,
     source |-> "backend"]

\* RefreshEntry tagged with the name of the route.
RefreshEntryMistagged(query, t) ==
    [result |-> <<"Backend result for", query, "(refreshed)">>,
     timestamp |-> t,
     expiry |-> CACHE_EXPIRY_SECONDS,
     source |-> "refresh"]

\* The entry /refresh stores.
RefreshEntry(query, t) ==
    [result |-> <<"Backend result for", query, "(refreshed)">>,
     timestamp |-> t,
     expiry |-> CACHE_EXPIRY_SECONDS,
     source |-> "backend"]

\* The entry a prefetch stores.
PredictedEntry(pred, conf, t) ==
    [result |-> <<"Predicted backend result for", pred.query>>,
     timestamp |-> t,
     expiry |-> CACHE_EXPIRY_SECONDS,
     source |-> "predicted",
     LLM_Confidence |-> conf]

\* cache.get(norm_query), then the fuzzy match when that is None: the key of the
\* entry the search looks at, as a set with at most one element.
FoundKey(cache, norm_query) ==
    IF norm_query \in DOMAIN cache THEN {norm_query}
    ELSE get_close_matches(norm_query, DOMAIN cache)

\* HitSource with a fuzzy hit tagged as a hit at the key itself would be.
HitSourceOfEntry(entry, fuzzy_used) ==
    IF entry.source = "backend" THEN "cache" ELSE entry.source

\* HitSource without the renaming of a backend entry's tag.
HitSourceRaw(entry, fuzzy_used) ==
    IF fuzzy_used THEN "fuzzy_cache" ELSE entry.source

\* The source tag of a hit.
HitSource(entry, fuzzy_used) ==
    IF fuzzy_used THEN "fuzzy_cache"
    ELSE IF entry.source = "backend" THEN "cache"
    ELSE entry.source

\* Lines 130-158: with the entry looked at (found, empty when there is none),
\* whether the search is a hit, and the source and the result it returns.
ResolveFound(cache, query, t, found, fuzzy_used) ==
    IF \E k \in found : Live(cache[k], t)
    THEN LET entry == cache[CHOOSE k \in found : TRUE]
         IN  [hit |-> TRUE, source |-> HitSource(entry, fuzzy_used),
              result |-> entry.result]
    ELSE [hit |-> FALSE, source |-> "backend",
          result |-> <<"Backend result for", query>>]

\* The lookup of search, lines 119-158.
Resolve(cache, query, t) ==
    ResolveFound(cache, query, t, FoundKey(cache, normalize_query(query)),
                 normalize_query(query) \notin DOMAIN cache)

\* Count with a hit that is not counted as a call saved.
CountHitsOnly(analytics, hit) ==
    IF hit
    THEN [analytics EXCEPT !.total_cache_hits = @ + 1]
    ELSE [analytics EXCEPT !.total_backend_calls = @ + 1]

\* The counters after a hit (api_calls_saved and total_cache_hits) or a miss.
Count(analytics, hit) ==
    IF hit
    THEN [analytics EXCEPT !.api_calls_saved = @ + 1, !.total_cache_hits = @ + 1]
    ELSE [analytics EXCEPT !.total_backend_calls = @ + 1]

\* CountFor on counters shared by all users.
CountForAll(analytics, user, hit) == [u \in DOMAIN analytics |-> Count(analytics[u], hit)]

\* analytics is USER_ANALYTICS[user]: only that user's counters move.
CountFor(analytics, user, hit) == [analytics EXCEPT ![user] = Count(@, hit)]

\* Record that never drops a record.
RecordUnbounded(hit_log, rec) == Append(hit_log, rec)

\* hit_log.append(rec); if len(hit_log) > 10: hit_log.pop(0)
Record(hit_log, rec) ==
    LET l == Append(hit_log, rec)
    IN  IF Len(l) > HIT_LOG_MAX THEN Tail(l) ELSE l

\* History made of the normalized keys.
HistoryKeys(hit_log) ==
    LET n == Len(hit_log)
        first == IF n > N_HISTORY THEN n - N_HISTORY + 1 ELSE 1
    IN  [i \in 1..(n - first + 1) |-> normalize_query(hit_log[first + i - 1].query)]

\* [h["query"] for h in hit_log[-N_HISTORY:]]
History(hit_log) ==
    LET n == Len(hit_log)
        first == IF n > N_HISTORY THEN n - N_HISTORY + 1 ELSE 1
    IN  [i \in 1..(n - first + 1) |-> hit_log[first + i - 1].query]

FreeSlots == {i \in 1..MaxTasks : tasks[i].pc = "idle"}

\* threading.Thread(target=predict_and_prefetch).start()
Spawn(user, history) ==
    LET slot == CHOOSE i \in FreeSlots : \A j \in FreeSlots : i <= j
    IN  [tasks EXCEPT ![slot] = [IdleTask EXCEPT !.pc = "llm", !.user = user,
                                                 !.history = history]]

\* StoreAfter that writes the backend entry at the searched key on a hit too.
StoreAlways(cache, query, t, hit) ==
    Put(cache, normalize_query(query), BackendEntry(query, t))

\* The user's store after the lookup: cache[norm_query] = {...} on a miss
\* (lines 151-156), nothing on a hit.
StoreAfter(cache, query, t, hit) ==
    IF hit THEN cache
    ELSE Put(cache, normalize_query(query), BackendEntry(query, t))

\* ------------------------------------------------------------ requests
\* Lines 118-169 of search, on the dicts ud that get_user_data returned.
SearchCore(user, query, ud) ==
    \E r \in {Resolve(ud.cache[user], query, now)} :
    \E rec \in {[query |-> query, source |-> r.source, time |-> now]} :
    \E hit_log \in {Record(ud.hit_log[user], rec)} :
        /\ USER_CACHE' = [ud.cache EXCEPT ![user] = StoreAfter(@, query, now, r.hit)]
        /\ USER_ANALYTICS' = CountFor(ud.analytics, user, r.hit)
        /\ USER_HIT_LOG' = [ud.hit_log EXCEPT ![user] = hit_log]
        /\ USER_PREDICTIONS' = ud.predictions
        /\ trace' = [trace EXCEPT ![user] = Append(@, rec)]
        /\ tasks' = Spawn(user, History(hit_log))
        /\ resp' = [op |-> "search", user |-> user, query |-> query,
                    result |-> r.result, source |-> r.source]

\* GET /search, the whole handler, with at most maxreq requests in the run.
SearchOp(user, query, maxreq) ==
    /\ nreq < maxreq
    /\ FreeSlots # {}
    /\ \E ud \in {get_user_data(user)} : SearchCore(user, query, ud)
    /\ nreq' = nreq + 1
    /\ UNCHANGED <<now, PREFETCH_CONFIDENCE_THRESHOLD, threads>>

Search(user, query) == SearchOp(user, query, MaxReq)

\* POST /refresh
Refresh(user, query) ==
    /\ nreq < MaxReq
    /\ \E ud \in {get_user_data(user)} :
       \E e \in {RefreshEntry(query, now)} :
           /\ USER_CACHE' = [ud.cache EXCEPT ![user] = Put(@, normalize_query(query), e)]
           /\ USER_ANALYTICS' = ud.analytics
           /\ USER_HIT_LOG' = ud.hit_log
           /\ USER_PREDICTIONS' = ud.predictions
           /\ resp' = [op |-> "refresh", user |-> user, query |-> query,
                       result |-> e.result, success |-> TRUE]
    /\ nreq' = nreq + 1
    /\ UNCHANGED <<now, PREFETCH_CONFIDENCE_THRESHOLD, tasks, threads, trace>>

\* isinstance(conf, float) and 0.0 <= conf <= 1.0
ValidConfidence(conf) == conf.type = "float" /\ 0 <= conf.val /\ conf.val <= 10

\* POST /set_confidence
SetConfidence(conf) ==
    /\ nreq < MaxReq
    /\ IF ValidConfidence(conf)
       THEN /\ PREFETCH_CONFIDENCE_THRESHOLD' = conf.val
            /\ resp' = [op |-> "set_confidence", request |-> conf, success |-> TRUE,
                        confidence |-> conf.val]
       ELSE /\ UNCHANGED PREFETCH_CONFIDENCE_THRESHOLD
            /\ resp' = [op |-> "set_confidence", request |-> conf, success |-> FALSE]
    /\ nreq' = nreq + 1
    /\ UNCHANGED <<now, USER_CACHE, USER_HIT_LOG, USER_PREDICTIONS, USER_ANALYTICS,
                   tasks, threads, trace>>

\* The clock moves on to a later reading.
Tick ==
    /\ \E t \in TimePoints : t > now /\ now' = t
    /\ UNCHANGED <<PREFETCH_CONFIDENCE_THRESHOLD, USER_CACHE, USER_HIT_LOG, USER_PREDICTIONS,
                   USER_ANALYTICS, tasks, threads, resp, nreq, trace>>

\* ------------------------------------------- predict_and_prefetch thread
\* The task after the candidate at idx: the next candidate, or the thread ends.
Advance(t) ==
    IF t.idx >= Len(t.preds) THEN IdleTask
    ELSE [t EXCEPT !.pc = "check", !.idx = @ + 1]

\* pred.get("confidence", 1.0)
Confidence(pred) ==
    IF "confidence" \in DOMAIN pred THEN pred.confidence ELSE DEFAULT_CONFIDENCE

\* BelowThreshold with a candidate at the threshold counted as below.
BelowOrAtThreshold(conf, threshold) == conf <= threshold

\* conf < PREFETCH_CONFIDENCE_THRESHOLD
BelowThreshold(conf, threshold) == conf < threshold

\* q in cache and (now - cache[q]["timestamp"]) < CACHE_EXPIRY_SECONDS
AlreadyCached(cache, q, t) == q \in DOMAIN cache /\ Live(cache[q], t)

\* The task at the head of prefetch_predictions(preds, cache): the clock is
\* read once, before the loop, and an empty list ends the thread.
Prefetching(t, preds) ==
    IF preds = <<>> THEN IdleTask
    ELSE [t EXCEPT !.pc = "check", !.preds = preds, !.idx = 1, !.now = now,
                   !.reply = NoReply]

\* StorePreds that adds the new candidates to the list in place.
StorePredsMerged(i, preds) ==
    /\ USER_PREDICTIONS' =
           Put(USER_PREDICTIONS, tasks[i].user, USER_PREDICTIONS[tasks[i].user] \o preds)
    /\ tasks' = [tasks EXCEPT ![i] = Prefetching(@, preds)]
    /\ UNCHANGED <<now, PREFETCH_CONFIDENCE_THRESHOLD, USER_CACHE, USER_HIT_LOG,
                   USER_ANALYTICS, threads, resp, nreq, trace>>

\* USER_PREDICTIONS[user] = preds; prefetch_predictions(preds, cache) begins.
StorePreds(i, preds) ==
    /\ USER_PREDICTIONS' = Put(USER_PREDICTIONS, tasks[i].user, preds)
    /\ tasks' = [tasks EXCEPT ![i] = Prefetching(@, preds)]
    /\ UNCHANGED <<now, PREFETCH_CONFIDENCE_THRESHOLD, USER_CACHE, USER_HIT_LOG,
                   USER_ANALYTICS, threads, resp, nreq, trace>>

\* preds = get_predictions_from_llm(history), with the list the call comes
\* back with taken from lists, and the store of it.
PredictStoreOp(i, lists) ==
    /\ tasks[i].pc = "llm"
    /\ \E preds \in lists : StorePreds(i, preds)

PredictStore(i) == PredictStoreOp(i, PredLists)

\* One turn of the loop up to the decision to write: a candidate without a
\* query raises KeyError and ends the thread; one below the threshold or
\* already cached is skipped.
PrefetchCheck(i) ==
    /\ tasks[i].pc = "check"
    /\ LET t == tasks[i]
           pred == t.preds[t.idx]
       IN  tasks' = [tasks EXCEPT ![i] =
                        IF "query" \notin DOMAIN pred THEN IdleTask
                        ELSE IF BelowThreshold(Confidence(pred), PREFETCH_CONFIDENCE_THRESHOLD)
                        THEN Advance(t)
                        ELSE IF AlreadyCached(USER_CACHE[t.user], normalize_query(pred.query),
                                              t.now)
                        THEN Advance(t)
                        ELSE [t EXCEPT !.pc = "write"]]
    /\ UNCHANGED <<now, PREFETCH_CONFIDENCE_THRESHOLD, USER_CACHE, USER_HIT_LOG,
                   USER_PREDICTIONS, USER_ANALYTICS, threads, resp, nreq, trace>>

\* cache[q] = {...}, stamped with the clock reading taken before the loop.
PrefetchWrite(i) ==
    /\ tasks[i].pc = "write"
    /\ LET t == tasks[i]
           pred == t.preds[t.idx]
       IN  /\ USER_CACHE' = [USER_CACHE EXCEPT ![t.user] =
                                Put(@, normalize_query(pred.query),
                                    PredictedEntry(pred, Confidence(pred), t.now))]
           /\ tasks' = [tasks EXCEPT ![i] = Advance(t)]
    /\ UNCHANGED <<now, PREFETCH_CONFIDENCE_THRESHOLD, USER_HIT_LOG, USER_PREDICTIONS,
                   USER_ANALYTICS, threads, resp, nreq, trace>>

\* ------------------------------------------------------ specification
\* Requests served one at a time; the prefetch threads run beside them.
Next ==
    \/ \E u \in Users, q \in Queries : Search(u, q)
    \/ \E u \in Users, q \in Queries : Refresh(u, q)
    \/ \E c \in ConfInputs : SetConfidence(c)
    \/ Tick
    \/ \E i \in 1..MaxTasks : PredictStore(i)
    \/ \E i \in 1..MaxTasks : PrefetchCheck(i)
    \/ \E i \in 1..MaxTasks : PrefetchWrite(i)

Spec == Init /\ [][Next]_vars

\* One user searching more often than the hit log is long, while the
\* predictor is unreachable (every LLM call fails and yields no candidate).
HistSearch(query) == SearchOp("alice", query, MaxHistReq)

PredictorDown(i) == PredictStoreOp(i, {<<>>})

NextHist ==
    \/ \E q \in Queries : HistSearch(q)
    \/ \E i \in 1..MaxTasks : PredictorDown(i)

SpecHist == Init /\ [][NextHist]_vars

\* --------------------------------------- search handlers side by side
\* FastAPI runs the handlers of a def route on a thread pool, so two
\* searches can be in progress at once. analytics[...] += 1 is a read, an
\* add and a store, and another thread can run between the read and the
\* store. The predictor is unreachable here, as in the history specification.

\* Lines 117-158 without the counters: the lookup, and on a miss the store
\* of the backend entry.
CBegin(th, user, query) ==
    /\ threads[th].pc = "idle"
    /\ nreq < MaxConcReq
    /\ \E ud \in {get_user_data(user)} :
       \E r \in {Resolve(ud.cache[user], query, now)} :
           /\ USER_CACHE' = [ud.cache EXCEPT ![user] = StoreAfter(@, query, now, r.hit)]
           /\ USER_ANALYTICS' = ud.analytics
           /\ USER_HIT_LOG' = ud.hit_log
           /\ USER_PREDICTIONS' = ud.predictions
           /\ threads' = [threads EXCEPT ![th] =
                 [pc |-> "read", user |-> user, query |-> query, source |-> r.source,
                  result |-> r.result, now |-> now,
                  field |-> IF r.hit THEN "api_calls_saved" ELSE "total_backend_calls",
                  tmp |-> 0]]
    /\ nreq' = nreq + 1
    /\ UNCHANGED <<now, PREFETCH_CONFIDENCE_THRESHOLD, tasks, resp, trace>>

\* The read of analytics[field] += 1.
CRead(th) ==
    /\ threads[th].pc = "read"
    /\ threads' = [threads EXCEPT ![th].pc = "write",
                                  ![th].tmp = USER_ANALYTICS[threads[th].user][threads[th].field]]
    /\ UNCHANGED <<now, PREFETCH_CONFIDENCE_THRESHOLD, USER_CACHE, USER_HIT_LOG,
                   USER_PREDICTIONS, USER_ANALYTICS, tasks, resp, nreq, trace>>

\* The store of analytics[field] += 1; a hit goes on to total_cache_hits.
CWrite(th) ==
    /\ threads[th].pc = "write"
    /\ LET t == threads[th]
       IN  /\ USER_ANALYTICS' = [USER_ANALYTICS EXCEPT ![t.user][t.field] = t.tmp + 1]
           /\ threads' = [threads EXCEPT ![th] =
                 IF t.field = "api_calls_saved"
                 THEN [t EXCEPT !.pc = "read", !.field = "total_cache_hits"]
                 ELSE [t EXCEPT !.pc = "log"]]
    /\ UNCHANGED <<now, PREFETCH_CONFIDENCE_THRESHOLD, USER_CACHE, USER_HIT_LOG,
                   USER_PREDICTIONS, tasks, resp, nreq, trace>>

\* Lines 160-169: the hit log, the prefetch thread, the response.
CFinish(th) ==
    /\ threads[th].pc = "log"
    /\ FreeSlots # {}
    /\ \E t \in {threads[th]} :
       \E rec \in {[query |-> t.query, source |-> t.source, time |-> t.now]} :
       \E hit_log \in {Record(USER_HIT_LOG[t.user], rec)} :
           /\ USER_HIT_LOG' = [USER_HIT_LOG EXCEPT ![t.user] = hit_log]
           /\ trace' = [trace EXCEPT ![t.user] = Append(@, rec)]
           /\ tasks' = Spawn(t.user, History(hit_log))
           /\ resp' = [op |-> "search", user |-> t.user, query |-> t.query,
                       result |-> t.result, source |-> t.source]
    /\ threads' = [threads EXCEPT ![th] = IdleThread]
    /\ UNCHANGED <<now, PREFETCH_CONFIDENCE_THRESHOLD, USER_CACHE, USER_PREDICTIONS,
                   USER_ANALYTICS, nreq>>

NextConc ==
    \/ \E th \in 1..MaxThreads, u \in Users, q \in Queries : CBegin(th, u, q)
    \/ \E th \in 1..MaxThreads : CRead(th)
    \/ \E th \in 1..MaxThreads : CWrite(th)
    \/ \E th \in 1..MaxThreads : CFinish(th)
    \/ Tick
    \/ \E i \in 1..MaxTasks : PredictorDown(i)

SpecConc == Init /\ [][NextConc]_vars

\* ------------------------------- first requests for a user side by side
\* get_user_data is a test and four stores with no lock around them, and
\* another handler can run between any two of them. A handler is followed
\* here through lines 104-112 one statement at a time; line 113 and the
\* rest of search (118-169) are taken in one step.

\* The request arrives: get_user_data is about to test the user.
GBegin(th, user, query) ==
    /\ threads[th].pc = "idle"
    /\ nreq < MaxConcReq
    /\ threads' = [threads EXCEPT ![th] =
                      [IdleThread EXCEPT !.pc = "test", !.user = user, !.query = query]]
    /\ nreq' = nreq + 1
    /\ UNCHANGED <<now, PREFETCH_CONFIDENCE_THRESHOLD, USER_CACHE, USER_HIT_LOG,
                   USER_PREDICTIONS, USER_ANALYTICS, tasks, resp, trace>>

\* Line 104: if user not in USER_CACHE
GTest(th) ==
    /\ threads[th].pc = "test"
    /\ threads' = [threads EXCEPT ![th].pc =
                      IF threads[th].user \notin DOMAIN USER_CACHE THEN "mk_cache" ELSE "return"]
    /\ UNCHANGED <<now, PREFETCH_CONFIDENCE_THRESHOLD, USER_CACHE, USER_HIT_LOG,
                   USER_PREDICTIONS, USER_ANALYTICS, tasks, resp, nreq, trace>>

\* Line 105: USER_CACHE[user] = {}
GMakeCache(th) ==
    /\ threads[th].pc = "mk_cache"
    /\ USER_CACHE' = Put(USER_CACHE, threads[th].user, <<>>)
    /\ threads' = [threads EXCEPT ![th].pc = "mk_hit_log"]
    /\ UNCHANGED <<now, PREFETCH_CONFIDENCE_THRESHOLD, USER_HIT_LOG, USER_PREDICTIONS,
                   USER_ANALYTICS, tasks, resp, nreq, trace>>

\* Line 106: USER_HIT_LOG[user] = []
GMakeHitLog(th) ==
    /\ threads[th].pc = "mk_hit_log"
    /\ USER_HIT_LOG' = Put(USER_HIT_LOG, threads[th].user, <<>>)
    /\ threads' = [threads EXCEPT ![th].pc = "mk_predictions"]
    /\ UNCHANGED <<now, PREFETCH_CONFIDENCE_THRESHOLD, USER_CACHE, USER_PREDICTIONS,
                   USER_ANALYTICS, tasks, resp, nreq, trace>>

\* Line 107: USER_PREDICTIONS[user] = []
GMakePredictions(th) ==
    /\ threads[th].pc = "mk_predictions"
    /\ USER_PREDICTIONS' = Put(USER_PREDICTIONS, threads[th].user, <<>>)
    /\ threads' = [threads EXCEPT ![th].pc = "mk_analytics"]
    /\ UNCHANGED <<now, PREFETCH_CONFIDENCE_THRESHOLD, USER_CACHE, USER_HIT_LOG,
                   USER_ANALYTICS, tasks, resp, nreq, trace>>

\* Lines 108-112: USER_ANALYTICS[user] = {...: 0}
GMakeAnalytics(th) ==
    /\ threads[th].pc = "mk_analytics"
    /\ USER_ANALYTICS' = Put(USER_ANALYTICS, threads[th].user, NoAnalytics)
    /\ threads' = [threads EXCEPT ![th].pc = "return"]
    /\ UNCHANGED <<now, PREFETCH_CONFIDENCE_THRESHOLD, USER_CACHE, USER_HIT_LOG,
                   USER_PREDICTIONS, tasks, resp, nreq, trace>>

\* Line 113 can subscript all four dicts.
ContextComplete(user) ==
    /\ user \in DOMAIN USER_CACHE
    /\ user \in DOMAIN USER_HIT_LOG
    /\ user \in DOMAIN USER_PREDICTIONS
    /\ user \in DOMAIN USER_ANALYTICS

\* Line 113 raises KeyError on a dict that has no item for the user yet: the
\* request ends in an error response.
GKeyError(th) ==
    /\ threads[th].pc = "return"
    /\ ~ContextComplete(threads[th].user)
    /\ resp' = [op |-> "error", user |-> threads[th].user, query |-> threads[th].query,
                error |-> "KeyError"]
    /\ threads' = [threads EXCEPT ![th] = IdleThread]
    /\ UNCHANGED <<now, PREFETCH_CONFIDENCE_THRESHOLD, USER_CACHE, USER_HIT_LOG,
                   USER_PREDICTIONS, USER_ANALYTICS, tasks, nreq, trace>>

\* Line 113 returns the four dicts, and search runs on them to its end.
GSearch(th) ==
    /\ threads[th].pc = "return"
    /\ ContextComplete(threads[th].user)
    /\ FreeSlots # {}
    /\ \E ud \in {[cache |-> USER_CACHE, hit_log |-> USER_HIT_LOG,
                    predictions |-> USER_PREDICTIONS, analytics |-> USER_ANALYTICS]} :
           SearchCore(threads[th].user, threads[th].query, ud)
    /\ threads' = [threads EXCEPT ![th] = IdleThread]
    /\ UNCHANGED <<now, PREFETCH_CONFIDENCE_THRESHOLD, nreq>>

NextCtx ==
    \/ \E th \in 1..MaxThreads, u \in Users, q \in Queries : GBegin(th, u, q)
    \/ \E th \in 1..MaxThreads : GTest(th)
    \/ \E th \in 1..MaxThreads : GMakeCache(th)
    \/ \E th \in 1..MaxThreads : GMakeHitLog(th)
    \/ \E th \in 1..MaxThreads : GMakePredictions(th)
    \/ \E th \in 1..MaxThreads : GMakeAnalytics(th)
    \/ \E th \in 1..MaxThreads : GKeyError(th)
    \/ \E th \in 1..MaxThreads : GSearch(th)
    \/ Tick
    \/ \E i \in 1..MaxTasks : PredictorDown(i)

SpecCtx == Init /\ [][NextCtx]_vars

\* ------------------------------------------------- the read endpoints
\* entry["expiry"] - (now - entry["timestamp"])
ExpiresIn(entry, t) == entry.expiry - (t - entry.timestamp)

\* DashboardRows with the entry at zero seconds still listed.
DashboardRowsInclusive(cache, t) ==
    {[query |-> q, source |-> cache[q].source, expires_in |-> ExpiresIn(cache[q], t)] :
         q \in {k \in DOMAIN cache : ExpiresIn(cache[k], t) >= 0}}

\* Lines 175-183: cache_list, one row per entry with expires_in > 0. The
\* rows are held as a set; the list has them in the dict's insertion order.
DashboardRows(cache, t) ==
    {[query |-> q, source |-> cache[q].source, expires_in |-> ExpiresIn(cache[q], t)] :
         q \in {k \in DOMAIN cache : ExpiresIn(cache[k], t) > 0}}

\* sum(1 for h in hit_log if h["source"] in sources)
CountSources(hit_log, sources) ==
    Cardinality({i \in 1..Len(hit_log) : hit_log[i].source \in sources})

\* GET /dashboard. The two quotients are floats in the code; they are held
\* as the pair <<numerator, denominator>>, <<0, 1>> standing for the 0 the
\* code returns when the denominator is 0.
Dashboard(user) ==
    /\ nreq < MaxReq
    /\ \E ud \in {get_user_data(user)} :
       \E analytics \in {ud.analytics[user]} :
       \E miss_count \in {CountSources(ud.hit_log[user], {"backend"})} :
       \E hit_count \in {CountSources(ud.hit_log[user], {"cache", "predicted", "fuzzy_cache"})} :
       \E total_calls \in {analytics.total_backend_calls + analytics.total_cache_hits} :
           /\ USER_CACHE' = ud.cache
           /\ USER_HIT_LOG' = ud.hit_log
           /\ USER_PREDICTIONS' = ud.predictions
           /\ USER_ANALYTICS' = ud.analytics
           /\ resp' = [op |-> "dashboard", user |-> user,
                       cache |-> DashboardRows(ud.cache[user], now),
                       last_10_hits |-> ud.hit_log[user],
                       miss_rate |-> IF miss_count + hit_count > 0
                                     THEN <<miss_count, miss_count + hit_count>>
                                     ELSE <<0, 1>>,
                       predictions |-> ud.predictions[user],
                       api_calls_saved |-> analytics.api_calls_saved,
                       total_backend_calls |-> analytics.total_backend_calls,
                       total_cache_hits |-> analytics.total_cache_hits,
                       avg_latency_saved |->
                           IF total_calls > 0
                           THEN <<analytics.api_calls_saved
                                      * (SIM_BACKEND_LATENCY - SIM_CACHE_LATENCY), total_calls>>
                           ELSE <<0, 1>>]
    /\ nreq' = nreq + 1
    /\ UNCHANGED <<now, PREFETCH_CONFIDENCE_THRESHOLD, tasks, threads, trace>>

\* GET /predict
GetPredictions(user) ==
    /\ nreq < MaxReq
    /\ \E ud \in {get_user_data(user)} :
           /\ USER_CACHE' = ud.cache
           /\ USER_HIT_LOG' = ud.hit_log
           /\ USER_PREDICTIONS' = ud.predictions
           /\ USER_ANALYTICS' = ud.analytics
           /\ resp' = [op |-> "predict", user |-> user, predictions |-> ud.predictions[user]]
    /\ nreq' = nreq + 1
    /\ UNCHANGED <<now, PREFETCH_CONFIDENCE_THRESHOLD, tasks, threads, trace>>

\* ExportRows without the entries that have expired.
ExportRowsLive(cache) ==
    {<<q, cache[q].source, cache[q].timestamp, cache[q].expiry>> :
         q \in {k \in DOMAIN cache : Live(cache[k], now)}}

\* Lines 246-247: the rows of the csv after its header, one per entry. The
\* rows are held as a set; the file has them in the dict's insertion order.
ExportRows(cache) ==
    {<<q, cache[q].source, cache[q].timestamp, cache[q].expiry>> : q \in DOMAIN cache}

ExportFormats == {"json", "csv"}

\* GET /export
Export(user, format) ==
    /\ nreq < MaxReq
    /\ \E ud \in {get_user_data(user)} :
           /\ USER_CACHE' = ud.cache
           /\ USER_HIT_LOG' = ud.hit_log
           /\ USER_PREDICTIONS' = ud.predictions
           /\ USER_ANALYTICS' = ud.analytics
           /\ resp' = IF format = "csv"
                      THEN [op |-> "export", user |-> user, format |-> format,
                            header |-> <<"query", "source", "timestamp", "expiry">>,
                            rows |-> ExportRows(ud.cache[user])]
                      ELSE [op |-> "export", user |-> user, format |-> format,
                            cache |-> ud.cache[user],
                            last_10_hits |-> ud.hit_log[user],
                            predictions |-> ud.predictions[user]]
    /\ nreq' = nreq + 1
    /\ UNCHANGED <<now, PREFETCH_CONFIDENCE_THRESHOLD, tasks, threads, trace>>

\* One user searching and refreshing, the predictor at work, and the read
\* endpoints called for that user and for one never seen.
NextView ==
    \/ \E q \in Queries : Search("alice", q)
    \/ \E q \in Queries : Refresh("alice", q)
    \/ \E c \in ConfInputs : SetConfidence(c)
    \/ \E u \in Users : Dashboard(u)
    \/ \E u \in Users : GetPredictions(u)
    \/ \E u \in Users, f \in ExportFormats : Export(u, f)
    \/ Tick
    \/ \E i \in 1..MaxTasks : PredictStore(i)
    \/ \E i \in 1..MaxTasks : PrefetchCheck(i)
    \/ \E i \in 1..MaxTasks : PrefetchWrite(i)

SpecView == Init /\ [][NextView]_vars

\* ------------------------------------------ the threshold endpoint
\* Bodies posted to /set_confidence, as json parses them: 0.0, 0.4, 1.0, 1.1
\* and -0.1 are floats, 0 and 1 are ints, "0.5" is a str, and a body without
\* a confidence item gives None. Values are held in tenths.
ConfBodies ==
    { [type |-> "float", val |-> 0],
      [type |-> "float", val |-> 4],
      [type |-> "float", val |-> 10],
      [type |-> "float", val |-> 11],
      [type |-> "float", val |-> -1],
      [type |-> "int", val |-> 0],
      [type |-> "int", val |-> 10],
      [type |-> "str", val |-> 5],
      [type |-> "none", val |-> 0] }

\* One user searching while the threshold is posted with every kind of body.
NextConf ==
    \/ \E c \in ConfBodies : SetConfidence(c)
    \/ \E q \in Queries : Search("alice", q)
    \/ Tick
    \/ \E i \in 1..MaxTasks : PredictStore(i)
    \/ \E i \in 1..MaxTasks : PrefetchCheck(i)
    \/ \E i \in 1..MaxTasks : PrefetchWrite(i)

SpecConf == Init /\ [][NextConf]_vars

\* ------------------------------------------------ the predictor call
\* What requests.post can end in: an exception (network error, timeout), an
\* error status (raise_for_status raises), a body that is not the JSON of a
\* completion (resp.json() or the subscripts raise), or a completion whose
\* message content is a text. A content is a sequence of tokens: a stretch
\* of prose, an opening or a closing bracket, or the JSON text of one
\* candidate object.
Prose == [tok |-> "prose"]

Open == [tok |-> "["]

Close == [tok |-> "]"]

Obj(cand) == [tok |-> "object", value |-> cand]

Completion(content) == [kind |-> "ok", content |-> content]

LLMReplies ==
    { [kind |-> "exception", content |-> <<>>],
      [kind |-> "http_error", content |-> <<>>],
      [kind |-> "not_json", content |-> <<>>],
      Completion(<<Prose>>),
      Completion(<<Prose, Obj([query |-> QAbcde, confidence |-> 9]), Prose>>),
      Completion(<<Open, Prose, Close>>),
      Completion(<<Prose, Open, Obj([confidence |-> 9]), Obj([query |-> QAbcde]), Close,
                   Prose>>),
      Completion(<<Open, Obj([query |-> QAbcde]), Obj([confidence |-> 9]), Close>>) }

\* re.search(r'\[.*?\]', content, re.DOTALL): from the first opening bracket
\* to the first closing bracket after it, as the pair of their positions;
\* <<0, 0>> when there is no match.
re_search(content) ==
    LET opens == {i \in 1..Len(content) : content[i] = Open}
        first == CHOOSE i \in opens : \A i2 \in opens : i <= i2
        closes == {j \in 1..Len(content) : j > first /\ content[j] = Close}
    IN  IF opens = {} \/ closes = {} THEN <<0, 0>>
        ELSE <<first, CHOOSE j \in closes : \A j2 \in closes : j <= j2>>

\* pyjson.loads of the matched text: the list of the objects between the
\* brackets; anything else between them makes loads raise.
json_loads(content, m) ==
    LET inner == SubSeq(content, m[1] + 1, m[2] - 1)
    IN  IF \A i \in 1..Len(inner) : inner[i].tok = "object"
        THEN [ok |-> TRUE, list |-> [i \in 1..Len(inner) |-> inner[i].value]]
        ELSE [ok |-> FALSE, list |-> <<>>]

\* get_predictions_from_llm that reads the candidate objects wherever they
\* stand in the content.
get_predictions_lenient(reply) ==
    LET objs == {i \in 1..Len(reply.content) : reply.content[i].tok = "object"}
        nth(n) == CHOOSE i \in objs : Cardinality({j \in objs : j <= i}) = n
    IN  [n \in 1..Cardinality(objs) |-> reply.content[nth(n)].value]

\* Lines 62-80: the list get_predictions_from_llm returns for a reply.
get_predictions_from_llm(reply) ==
    IF reply.kind # "ok" THEN <<>>
    ELSE LET m == re_search(reply.content)
         IN  IF m = <<0, 0>> THEN <<>>
             ELSE json_loads(reply.content, m).list

\* Line 63: the call to the LLM service comes back.
LlmReply(i) ==
    /\ tasks[i].pc = "llm"
    /\ \E reply \in LLMReplies : tasks' = [tasks EXCEPT ![i].pc = "reply", ![i].reply = reply]
    /\ UNCHANGED <<now, PREFETCH_CONFIDENCE_THRESHOLD, USER_CACHE, USER_HIT_LOG,
                   USER_PREDICTIONS, USER_ANALYTICS, threads, resp, nreq, trace>>

\* Lines 64-80 and 166-167: the reply is parsed and the list stored.
ParseStore(i) ==
    /\ tasks[i].pc = "reply"
    /\ StorePreds(i, get_predictions_from_llm(tasks[i].reply))

\* One user searching, with the predictor answering in every way it can.
NextLlm ==
    \/ \E q \in Queries : Search("alice", q)
    \/ Tick
    \/ \E i \in 1..MaxTasks : LlmReply(i)
    \/ \E i \in 1..MaxTasks : ParseStore(i)
    \/ \E i \in 1..MaxTasks : PrefetchCheck(i)
    \/ \E i \in 1..MaxTasks : PrefetchWrite(i)

SpecLlm == Init /\ [][NextLlm]_vars

\* ------------------------------------------------- reading a step
\* The step serves a search request; resp' is its response.
SearchStep == nreq' = nreq + 1 /\ resp'.op = "search"

\* The step serves a refresh request.
RefreshStep == nreq' = nreq + 1 /\ resp'.op = "refresh"

\* The user's store before the step ({} for a user never seen).
StoreOf(user) == IF user \in DOMAIN USER_CACHE THEN USER_CACHE[user] ELSE <<>>

\* The user's counters before the step.
CountersOf(user) == IF user \in DOMAIN USER_ANALYTICS THEN USER_ANALYTICS[user] ELSE NoAnalytics

HitSources == {"cache", "predicted", "fuzzy_cache"}

\* --------------------------------------------------------------- C1
\* C1: a search for a key that has an entry is a hit (tagged cache or
\* predicted, the entry's result, no backend call, the entry kept) while
\* now - createdAt < ttlSeconds, and from now - createdAt = ttlSeconds on a
\* miss: source backend, one more backend call, a fresh backend entry.
C1_TTLBoundary ==
    [][SearchStep =>
          LET u == resp'.user
              k == normalize_query(resp'.query)
              store == StoreOf(u)
          IN  k \in DOMAIN store =>
                  LET e == store[k]
                  IN  IF now - e.timestamp < e.expiry
                      THEN /\ resp'.source \in {"cache", "predicted"}
                           /\ resp'.result = e.result
                           /\ USER_CACHE'[u] = store
                           /\ USER_ANALYTICS'[u].total_backend_calls
                                  = CountersOf(u).total_backend_calls
                      ELSE /\ resp'.source = "backend"
                           /\ USER_ANALYTICS'[u].total_backend_calls
                                  = CountersOf(u).total_backend_calls + 1
                           /\ USER_CACHE'[u][k].timestamp = now
                           /\ USER_CACHE'[u][k].source = "backend"]_vars

\* A user searched the same text at a miss, 299 s later (a hit) and 300 s
\* later (a miss again).
C1_Witness ==
    \E u \in DOMAIN USER_HIT_LOG :
        LET log == USER_HIT_LOG[u]
        IN  /\ Len(log) = 3
            /\ log[1].query = log[2].query /\ log[2].query = log[3].query
            /\ log[1].source = "backend"
            /\ log[2].source = "cache"
            /\ log[2].time = log[1].time + CACHE_EXPIRY_SECONDS - 1
            /\ log[3].source = "backend"
            /\ log[3].time = log[1].time + CACHE_EXPIRY_SECONDS

\* --------------------------------------------------------------- C2
\* The keys of a store whose entries are live at t.
LiveKeys(store, t) == {k \in DOMAIN store : t - store[k].timestamp < store[k].expiry}

\* C2: whenever the searched key has no live entry and some live key is
\* within the cutoff, the search returns the closest live key's result
\* tagged fuzzy_cache.
C2_FuzzyOverLiveKeys ==
    [][SearchStep =>
          LET k == normalize_query(resp'.query)
              store == StoreOf(resp'.user)
              live == LiveKeys(store, now)
              best == get_close_matches(k, live)
          IN  (k \notin live /\ best # {}) =>
                  /\ resp'.source = "fuzzy_cache"
                  /\ \E m \in best : resp'.result = store[m].result]_vars

\* --------------------------------------------------------------- C3
\* The records of a log whose query normalizes to key k.
Lookups(log, k) == {i \in 1..Len(log) : normalize_query(log[i].query) = k}

\* The step is the second of two identical searches with no request between
\* them, and the first was the first lookup of that key by the user, less
\* than the TTL ago.
SecondOfTwo ==
    /\ SearchStep
    /\ resp.op = "search"
    /\ resp'.user = resp.user
    /\ resp'.query = resp.query
    /\ LET log == trace[resp.user]
       IN  /\ Lookups(log, normalize_query(resp.query)) = {Len(log)}
           /\ now - log[Len(log)].time < CACHE_EXPIRY_SECONDS

\* C3 (as claimed): of two identical searches within the TTL for a query
\* never looked up before, the first stores the one backend entry of the key,
\* the second returns "cache", and api_calls_saved grows by exactly 1 over
\* the two, whatever the store held before and whatever the prefetch threads
\* do.
C3_IdempotentHit ==
    [][SecondOfTwo =>
          LET u == resp.user
              k == normalize_query(resp.query)
              first == trace[u][Len(trace[u])]
          IN  /\ first.source = "backend"
              /\ resp'.source = "cache"
              /\ USER_CACHE'[u][k] = BackendEntry(resp.query, first.time)
              /\ USER_ANALYTICS'[u].api_calls_saved
                     = USER_ANALYTICS[u].api_calls_saved + 1]_vars

\* C3 (amended): when the first of the two searches is a miss, it stores the
\* backend entry of the key; the second search looks at the entry then at the
\* key. If that is still the first one's entry, the second returns its result
\* tagged "cache", leaves it in place and adds exactly 1 to api_calls_saved
\* and to total_cache_hits. Otherwise a prefetch thread has overwritten it
\* with a predicted entry, and the second returns "predicted" if that entry
\* is live and goes to the backend if it is not.
C3_IdempotentAfterMiss ==
    [][(SecondOfTwo /\ resp.source = "backend") =>
          LET u == resp.user
              k == normalize_query(resp.query)
              first == trace[u][Len(trace[u])]
              e == USER_CACHE[u][k]
              saved == USER_ANALYTICS[u].api_calls_saved
          IN  IF e = BackendEntry(resp.query, first.time)
              THEN /\ resp'.source = "cache"
                   /\ resp'.result = resp.result
                   /\ USER_CACHE'[u] = USER_CACHE[u]
                   /\ USER_ANALYTICS'[u] =
                          [USER_ANALYTICS[u] EXCEPT !.api_calls_saved = @ + 1,
                                                    !.total_cache_hits = @ + 1]
              ELSE /\ e.source = "predicted"
                   /\ resp'.source =
                          IF now - e.timestamp < e.expiry THEN "predicted" ELSE "backend"]_vars

\* Two identical searches, a miss and then a hit tagged cache, one call saved.
C3_Witness ==
    /\ resp.op = "search"
    /\ resp.source = "cache"
    /\ LET log == trace[resp.user]
       IN  /\ Len(log) = 2
           /\ log[1].query = resp.query
           /\ log[1].source = "backend"
           /\ log[2].query = resp.query
    /\ USER_ANALYTICS[resp.user].api_calls_saved = 1
    /\ USER_ANALYTICS[resp.user].total_backend_calls = 1

\* --------------------------------------------------------------- C4
\* C4: no step puts a predicted entry in the place of an entry that is live
\* when the step is taken.
C4_PrefetchKeepsLive ==
    [][\A u \in DOMAIN USER_CACHE : \A k \in DOMAIN USER_CACHE[u] :
          (now - USER_CACHE[u][k].timestamp < USER_CACHE[u][k].expiry)
              => \/ USER_CACHE'[u][k] = USER_CACHE[u][k]
                 \/ USER_CACHE'[u][k].source # "predicted"]_vars

\* --------------------------------------------------------------- C5
\* Task i takes a step of its loop.
TaskStep(i, pc) == tasks[i].pc = pc /\ tasks'[i] # tasks[i]

\* C5: a candidate whose confidence is below the threshold in force when the
\* task evaluates it is skipped with the store untouched; one at or above
\* the threshold, with no live entry at its key, goes on to the write; the
\* write stores at the normalized key a predicted entry with the candidate's
\* confidence and the clock reading of the prefetch.
C5_ConfidenceGate ==
    [][\A i \in 1..MaxTasks :
          LET t == tasks[i]
              pred == t.preds[t.idx]
              conf == IF "confidence" \in DOMAIN pred THEN pred.confidence ELSE 10
              k == normalize_query(pred.query)
              store == USER_CACHE[t.user]
          IN  /\ (TaskStep(i, "check") /\ "query" \in DOMAIN pred) =>
                    /\ USER_CACHE' = USER_CACHE
                    /\ conf < PREFETCH_CONFIDENCE_THRESHOLD => tasks'[i].pc # "write"
                    /\ ( /\ conf >= PREFETCH_CONFIDENCE_THRESHOLD
                         /\ (k \notin DOMAIN store \/ t.now - store[k].timestamp >= store[k].expiry) )
                           => tasks'[i].pc = "write"
              /\ TaskStep(i, "write") =>
                    /\ USER_CACHE'[t.user][k].source = "predicted"
                    /\ USER_CACHE'[t.user][k].LLM_Confidence = conf
                    /\ USER_CACHE'[t.user][k].timestamp = t.now
                    /\ USER_CACHE'[t.user][k].expiry = CACHE_EXPIRY_SECONDS
                    /\ USER_CACHE'[t.user][k].result = <<"Predicted backend result for", pred.query>>
                    /\ \A k2 \in DOMAIN store \ {k} : USER_CACHE'[t.user][k2] = store[k2]]_vars

\* The threshold was lowered to 0.4 and the 0.5 candidate is in the store.
C5_Witness ==
    /\ PREFETCH_CONFIDENCE_THRESHOLD = 4
    /\ \E u \in DOMAIN USER_CACHE : \E k \in DOMAIN USER_CACHE[u] :
          /\ USER_CACHE[u][k].source = "predicted"
          /\ USER_CACHE[u][k].LLM_Confidence = 5

\* --------------------------------------------------------------- C6
\* The last n elements of a sequence.
LastN(seq, n) ==
    LET len == Len(seq)
        m == IF n < len THEN n ELSE len
    IN  [i \in 1..m |-> seq[len - m + i]]

\* C6: after n searches of a user the hit log holds the min(n, 10) most
\* recent records, in arrival order.
C6_HistoryBound ==
    \A u \in DOMAIN USER_HIT_LOG :
        /\ Len(USER_HIT_LOG[u]) <= 10
        /\ (Len(trace[u]) <= 10 => USER_HIT_LOG[u] = trace[u])
        /\ (Len(trace[u]) > 10 =>
               /\ Len(USER_HIT_LOG[u]) = 10
               /\ \A i \in 1..10 : USER_HIT_LOG[u][i] = trace[u][Len(trace[u]) - 10 + i])

\* After 12 searches the log holds 10 records, and a record that was
\* evicted differs from the oldest one kept.
C6_Witness ==
    \E u \in DOMAIN USER_HIT_LOG :
        /\ Len(trace[u]) = 12
        /\ Len(USER_HIT_LOG[u]) = 10
        /\ trace[u][1] # USER_HIT_LOG[u][1]
        /\ trace[u][2] # USER_HIT_LOG[u][1]
        /\ USER_HIT_LOG[u][1] = trace[u][3]
        /\ USER_HIT_LOG[u][10] = trace[u][12]

\* --------------------------------------------------------------- C7
\* Everything the program keeps for a user (absent for a user never seen).
DataOf(user) ==
    [cache |-> IF user \in DOMAIN USER_CACHE THEN <<USER_CACHE[user]>> ELSE <<>>,
     hit_log |-> IF user \in DOMAIN USER_HIT_LOG THEN <<USER_HIT_LOG[user]>> ELSE <<>>,
     predictions |-> IF user \in DOMAIN USER_PREDICTIONS THEN <<USER_PREDICTIONS[user]>> ELSE <<>>,
     analytics |-> IF user \in DOMAIN USER_ANALYTICS THEN <<USER_ANALYTICS[user]>> ELSE <<>>]

\* C7: a search or refresh for one user, and a step of one user's prefetch
\* thread, leave every other user's store, hit log, predictions and counters
\* as they were.
C7_UserIsolation ==
    [][/\ (SearchStep \/ RefreshStep) =>
              \A b \in Users \ {resp'.user} : DataOf(b)' = DataOf(b)
       /\ \A i \in 1..MaxTasks :
              (tasks[i].pc # "idle" /\ tasks'[i] # tasks[i]) =>
                  \A b \in Users \ {tasks[i].user} : DataOf(b)' = DataOf(b)]_vars

\* The same text searched by two users: each has its own backend entry, and
\* the hit of one has left the other's counters alone.
C7_Witness ==
    \E a, b \in DOMAIN USER_CACHE :
        /\ a # b
        /\ \E k \in DOMAIN USER_CACHE[a] \cap DOMAIN USER_CACHE[b] :
              /\ USER_CACHE[a][k].source = "backend"
              /\ USER_CACHE[b][k].source = "backend"
              /\ USER_CACHE[a][k].timestamp # USER_CACHE[b][k].timestamp
        /\ USER_ANALYTICS[a] =
               [api_calls_saved |-> 1, total_backend_calls |-> 1, total_cache_hits |-> 1]
        /\ USER_ANALYTICS[b] =
               [api_calls_saved |-> 0, total_backend_calls |-> 1, total_cache_hits |-> 0]

C9_Accounting ==
    /\ [](\A u \in DOMAIN USER_ANALYTICS :
             /\ USER_ANALYTICS[u].api_calls_saved = USER_ANALYTICS[u].total_cache_hits
             /\ USER_ANALYTICS[u].total_backend_calls + USER_ANALYTICS[u].total_cache_hits
                    = Len(trace[u]))
    /\ [][SearchStep =>
             LET u == resp'.user
                 old == CountersOf(u)
                 new == USER_ANALYTICS'[u]
             IN  /\ resp'.source \in HitSources \cup {"backend"}
                 /\ resp'.source = "backend" =>
                        /\ new.total_backend_calls = old.total_backend_calls + 1
                        /\ new.total_cache_hits = old.total_cache_hits
                        /\ new.api_calls_saved = old.api_calls_saved
                 /\ resp'.source \in HitSources =>
                        /\ new.total_backend_calls = old.total_backend_calls
                        /\ new.total_cache_hits = old.total_cache_hits + 1
                        /\ new.api_calls_saved = old.api_calls_saved + 1]_vars

\* A user with a miss, an exact hit and a fuzzy hit behind them.
C9_Witness ==
    \E u \in DOMAIN USER_ANALYTICS :
        /\ USER_ANALYTICS[u] =
               [api_calls_saved |-> 2, total_backend_calls |-> 1, total_cache_hits |-> 2]
        /\ {trace[u][i].source : i \in 1..Len(trace[u])} = {"backend", "cache", "fuzzy_cache"}

\* -------------------------------------------------------------- C10
\* C10: no step lowers a counter of any user.
C10_CountersMonotone ==
    [][\A u \in DOMAIN USER_ANALYTICS :
          /\ USER_ANALYTICS'[u].api_calls_saved >= USER_ANALYTICS[u].api_calls_saved
          /\ USER_ANALYTICS'[u].total_backend_calls >= USER_ANALYTICS[u].total_backend_calls
          /\ USER_ANALYTICS'[u].total_cache_hits >= USER_ANALYTICS[u].total_cache_hits]_vars

\* -------------------------------------------------------------- C11
\* Handler th takes a step from the statement at pc.
ThreadStep(th, pc) == threads[th].pc = pc /\ threads'[th] # threads[th]

\* C11: a user's context is created once: a handler at line 113 finds the
\* user's store, hit log, predictions and counters all there; no handler
\* stores a new empty dict or list for a user who already has one; and no
\* step empties a store, a hit log or counters that a request has written.
C11_ContextCreatedOnce ==
    /\ [](\A th \in 1..MaxThreads :
             threads[th].pc = "return" => ContextComplete(threads[th].user))
    /\ [][/\ \A th \in 1..MaxThreads :
                /\ ThreadStep(th, "mk_cache") => threads[th].user \notin DOMAIN USER_CACHE
                /\ ThreadStep(th, "mk_hit_log") => threads[th].user \notin DOMAIN USER_HIT_LOG
                /\ ThreadStep(th, "mk_predictions") =>
                       threads[th].user \notin DOMAIN USER_PREDICTIONS
                /\ ThreadStep(th, "mk_analytics") =>
                       threads[th].user \notin DOMAIN USER_ANALYTICS
          /\ \A u \in DOMAIN USER_CACHE :
                DOMAIN USER_CACHE[u] \subseteq DOMAIN USER_CACHE'[u]
          /\ \A u \in DOMAIN USER_HIT_LOG :
                USER_HIT_LOG[u] # <<>> => USER_HIT_LOG'[u] # <<>>
          /\ \A u \in DOMAIN USER_ANALYTICS :
                USER_ANALYTICS[u] # NoAnalytics => USER_ANALYTICS'[u] # NoAnalytics]_vars

\* -------------------------------------------------------------- C12
\* The step serves a set_confidence request; resp' holds the body and the response.
SetConfidenceStep == nreq' = nreq + 1 /\ resp'.op = "set_confidence"

\* C12: a numeric body value v with 0 <= v <= 1, the endpoints included,
\* succeeds and becomes the threshold; every other body is answered with a
\* failure and leaves the threshold and every user's store, hit log,
\* predictions and counters as they were.
C12_ThresholdValidation ==
    [][SetConfidenceStep =>
          LET v == resp'.request
          IN  IF v.type \in {"float", "int"} /\ 0 <= v.val /\ v.val <= 10
              THEN /\ resp'.success
                   /\ resp'.confidence = v.val
                   /\ PREFETCH_CONFIDENCE_THRESHOLD' = v.val
              ELSE /\ ~resp'.success
                   /\ UNCHANGED <<PREFETCH_CONFIDENCE_THRESHOLD, USER_CACHE, USER_HIT_LOG,
                                  USER_PREDICTIONS, USER_ANALYTICS>>]_vars

\* -------------------------------------------------------------- C13
\* C13: a candidate without a query is skipped and the task goes on to the
\* next candidate of the list (it ends only after the last one); a
\* candidate with a query and no confidence counts as 1.0, so under any
\* threshold up to 1.0 it goes on to the write unless its key has a live
\* entry, and the entry written carries the confidence 1.0.
C13_MalformedTolerated ==
    [][\A i \in 1..MaxTasks :
          LET t == tasks[i]
              pred == t.preds[t.idx]
              k == normalize_query(pred.query)
              store == USER_CACHE[t.user]
          IN  /\ (TaskStep(i, "check") /\ "query" \notin DOMAIN pred) =>
                    IF t.idx < Len(t.preds)
                    THEN tasks'[i].pc = "check" /\ tasks'[i].idx = t.idx + 1
                    ELSE tasks'[i].pc = "idle"
              /\ ( /\ TaskStep(i, "check")
                   /\ "query" \in DOMAIN pred
                   /\ "confidence" \notin DOMAIN pred
                   /\ PREFETCH_CONFIDENCE_THRESHOLD <= 10
                   /\ (k \notin DOMAIN store \/ t.now - store[k].timestamp >= store[k].expiry) )
                     => tasks'[i].pc = "write"
              /\ (TaskStep(i, "write") /\ "confidence" \notin DOMAIN pred) =>
                     USER_CACHE'[t.user][k].LLM_Confidence = 10]_vars

\* -------------------------------------------------------------- C14
\* The predictor call has failed: the request raised, the status was an
\* error, the body was not JSON, or the content holds no bracketed array or
\* one that is not JSON.
FailedReply(reply) ==
    \/ reply.kind \in {"exception", "http_error", "not_json"}
    \/ /\ reply.kind = "ok"
       /\ LET c == reply.content
              pairs == {p \in (1..Len(c)) \X (1..Len(c)) :
                           p[1] < p[2] /\ c[p[1]] = Open /\ c[p[2]] = Close}
          IN  \/ pairs = {}
              \/ \E p \in pairs :
                    /\ \A p2 \in pairs : p[1] <= p2[1] /\ p[2] <= p2[2]
                    /\ \E n \in (p[1] + 1)..(p[2] - 1) : c[n].tok # "object"

\* C14: a task whose predictor call fails yields the empty list: it stores
\* [] as the user's predictions and ends, and the step changes no store, hit
\* log, counter, threshold or response; every response a caller gets is a
\* search result.
C14_PredictorSoftFailure ==
    /\ [](resp.op \in {"none", "search"})
    /\ [][\A i \in 1..MaxTasks :
             (TaskStep(i, "reply") /\ FailedReply(tasks[i].reply)) =>
                 /\ USER_PREDICTIONS'[tasks[i].user] = <<>>
                 /\ tasks'[i].pc = "idle"
                 /\ UNCHANGED <<USER_CACHE, USER_HIT_LOG, USER_ANALYTICS, resp, nreq,
                                PREFETCH_CONFIDENCE_THRESHOLD, now>>
                 /\ \A j \in 1..MaxTasks \ {i} : tasks'[j] = tasks[j]]_vars

\* After two searches of a user the first cycle has prefetched an entry and
\* the second one failed: the predictions are empty, every task has ended,
\* and the second search got its result.
C14_Witness ==
    \E u \in DOMAIN USER_PREDICTIONS :
        /\ USER_PREDICTIONS[u] = <<>>
        /\ Len(trace[u]) = 2
        /\ \E k \in DOMAIN USER_CACHE[u] : USER_CACHE[u][k].source = "predicted"
        /\ \A i \in 1..MaxTasks : tasks[i].pc = "idle"
        /\ resp.op = "search" /\ resp.user = u

\* -------------------------------------------------------------- C15
\* C15: a search starts one prefetch task for its user, and the history it
\* hands over is read from the hit log as the search left it (its own record
\* appended, the oldest dropped beyond 10): the raw texts of the last
\* min(n, 3) of the user's n searches, oldest first, the last one being the
\* text of this search.
C15_HistorySnapshot ==
    [][SearchStep =>
          \E i \in 1..MaxTasks :
              /\ tasks[i].pc = "idle"
              /\ tasks'[i].pc = "llm"
              /\ tasks'[i].user = resp'.user
              /\ LET h == tasks'[i].history
                     recent == LastN(USER_HIT_LOG'[resp'.user], 3)
                     all == trace'[resp'.user]
                     m == IF Len(all) < 3 THEN Len(all) ELSE 3
                 IN  /\ Len(h) = m
                     /\ \A j \in 1..m : h[j] = all[Len(all) - m + j].query
                     /\ h = [j \in 1..Len(recent) |-> recent[j].query]
                     /\ h[m] = resp'.query]_vars

\* The twelfth search of a user, of a text that needs normalizing, has
\* handed its task a history of three raw texts ending in its own, after the
\* hit log dropped its oldest records.
C15_Witness ==
    /\ resp.op = "search"
    /\ resp.query = QAbcRaw
    /\ Len(trace[resp.user]) = 12
    /\ USER_HIT_LOG[resp.user][1] = trace[resp.user][3]
    /\ \E i \in 1..MaxTasks :
          /\ tasks[i].pc = "llm"
          /\ tasks[i].history = <<QAbcd, QAbcRaw, QAbcRaw>>

\* -------------------------------------------------------------- C16
\* The user's prediction list before the step ([] for a user never seen).
PredictionsOf(user) ==
    IF user \in DOMAIN USER_PREDICTIONS THEN USER_PREDICTIONS[user] ELSE <<>>

\* C16: the step in which a task stores its candidates makes the user's
\* prediction list exactly the list its predictor call returned (the task
\* ends at once when that is empty); no other step changes the list of a
\* user; so the list is always empty or the whole output of one call, and
\* that is what GetPredictions returns.
C16_PredictionsReplaced ==
    /\ [](\A u \in DOMAIN USER_PREDICTIONS : USER_PREDICTIONS[u] \in PredLists \cup {<<>>})
    /\ [][/\ \A i \in 1..MaxTasks :
                TaskStep(i, "llm") =>
                    /\ USER_PREDICTIONS'[tasks[i].user] \in PredLists
                    /\ USER_PREDICTIONS'[tasks[i].user] =
                           (IF tasks'[i].pc = "idle" THEN <<>> ELSE tasks'[i].preds)
          /\ \A u \in Users :
                PredictionsOf(u)' # PredictionsOf(u) =>
                    \E i \in 1..MaxTasks : TaskStep(i, "llm") /\ tasks[i].user = u
          /\ (nreq' = nreq + 1 /\ resp'.op = "predict") =>
                /\ resp'.predictions = PredictionsOf(resp'.user)
                /\ resp'.predictions = USER_PREDICTIONS'[resp'.user]]_vars

\* GetPredictions returns the two candidates of the user's second cycle,
\* and nothing of the first cycle's list, whose candidate abcde is in the
\* store.
C16_Witness ==
    /\ resp.op = "predict"
    /\ Len(resp.predictions) = 2
    /\ \A j \in 1..2 : "query" \in DOMAIN resp.predictions[j] /\ resp.predictions[j].query # QAbcde
    /\ QAbcde \in DOMAIN USER_CACHE[resp.user]
    /\ USER_CACHE[resp.user][QAbcde].source = "predicted"
    /\ Len(trace[resp.user]) = 2

\* -------------------------------------------------------------- C17
\* The step serves a dashboard request.
DashboardStep == nreq' = nreq + 1 /\ resp'.op = "dashboard"

\* C17: the cache list of a dashboard response has a row for key k exactly
\* when the user's store has an entry at k with
\* ttlSeconds - (now - createdAt) > 0; the row carries that number and the
\* entry's source; and k is listed exactly when a search of the text k at
\* the same instant would be a hit on the entry at k.
C17_DashboardLiveSet ==
    [][DashboardStep =>
          LET store == StoreOf(resp'.user)
              rows == resp'.cache
              left(k) == store[k].expiry - (now - store[k].timestamp)
          IN  /\ \A row \in rows :
                    /\ row.query \in DOMAIN store
                    /\ row.expires_in = left(row.query)
                    /\ row.source = store[row.query].source
              /\ \A k \in DOMAIN store :
                    /\ (\E row \in rows : row.query = k) <=> left(k) > 0
                    /\ (\E row \in rows : row.query = k) <=>
                           Resolve(store, k, now).source \in {"cache", "predicted"}
              /\ Cardinality(rows) = Cardinality({k \in DOMAIN store : left(k) > 0})
              /\ USER_CACHE'[resp'.user] = store]_vars

\* A dashboard read at the instant an entry reaches its TTL: the entry is in
\* the store and not in the list, and another entry is listed.
C17_Witness ==
    /\ resp.op = "dashboard"
    /\ resp.cache # {}
    /\ \E k \in DOMAIN USER_CACHE[resp.user] :
          /\ now - USER_CACHE[resp.user][k].timestamp = CACHE_EXPIRY_SECONDS
          /\ \A row \in resp.cache : row.query # k

\* -------------------------------------------------------------- C18
\* C18: a search whose normalized key has a live entry returns that entry's
\* result, tagged cache when the entry's source is backend and predicted
\* when it is predicted; a search answered from another key's entry (its own
\* key has no entry, the closest key within the cutoff has a live one) is
\* tagged fuzzy_cache whatever that entry's source; and the record the
\* search appends to the hit log carries the source it returned.
C18_ExactFirstAndTags ==
    [][SearchStep =>
          LET u == resp'.user
              k == normalize_query(resp'.query)
              store == StoreOf(u)
              log == USER_HIT_LOG'[u]
          IN  /\ (k \in DOMAIN store /\ now - store[k].timestamp < CACHE_EXPIRY_SECONDS) =>
                    /\ resp'.result = store[k].result
                    /\ store[k].source = "backend" => resp'.source = "cache"
                    /\ store[k].source = "predicted" => resp'.source = "predicted"
              /\ resp'.source = "fuzzy_cache" =>
                    /\ k \notin DOMAIN store
                    /\ \E m \in get_close_matches(k, DOMAIN store) :
                          /\ now - store[m].timestamp < CACHE_EXPIRY_SECONDS
                          /\ resp'.result = store[m].result
              /\ (k \notin DOMAIN store /\
                     \E m \in get_close_matches(k, DOMAIN store) :
                         now - store[m].timestamp < CACHE_EXPIRY_SECONDS)
                    => resp'.source = "fuzzy_cache"
              /\ log[Len(log)] = [query |-> resp'.query, source |-> resp'.source, time |-> now]
              /\ trace'[u][Len(trace'[u])].source = resp'.source]_vars

\* A user's three searches were a miss, a fuzzy hit on a predicted entry
\* and a hit on the predicted entry at the searched key, each logged with
\* the source it returned.
C18_Witness ==
    /\ resp.op = "search"
    /\ resp.source = "predicted"
    /\ LET store == USER_CACHE[resp.user]
           k == normalize_query(resp.query)
           log == trace[resp.user]
       IN  /\ store[k].source = "predicted"
           /\ store[k].result = resp.result
           /\ Len(log) = 3
           /\ log[1].source = "backend"
           /\ log[2].source = "fuzzy_cache"
           /\ log[3].source = "predicted"
           /\ \E m \in DOMAIN store \ {k} :
                 /\ store[m].source = "predicted"
                 /\ normalize_query(log[2].query) \notin {k, m}
                 /\ m \in get_close_matches(normalize_query(log[2].query), DOMAIN store \ {k})

\* -------------------------------------------------------------- C19
\* The key a request writes at, if it is a search or a refresh of the user.
PutKey(user) ==
    IF nreq' = nreq + 1 /\ resp'.op \in {"search", "refresh"} /\ resp'.user = user
    THEN {normalize_query(resp'.query)}
    ELSE {}

\* The keys the prefetch tasks of the user write at in the step.
PrefetchKeys(user) ==
    {normalize_query(tasks[i].preds[tasks[i].idx].query) :
        i \in {j \in 1..MaxTasks : TaskStep(j, "write") /\ tasks[j].user = user}}

\* C19: no step removes a key from a user's store; an entry changes only in
\* a step that puts at its key (a search or refresh of that key, a prefetch
\* write at it), so an expired entry stays as it is until then; an export
\* lists every entry of the store, the expired ones included; and a search
\* whose fuzzy match has expired stores the backend entry at the searched
\* key and leaves the matched entry alone.
C19_ExpiredRetained ==
    [][/\ \A u \in DOMAIN USER_CACHE : \A k \in DOMAIN USER_CACHE[u] :
             /\ k \in DOMAIN USER_CACHE'[u]
             /\ USER_CACHE'[u][k] # USER_CACHE[u][k] => k \in PutKey(u) \cup PrefetchKeys(u)
       /\ (nreq' = nreq + 1 /\ resp'.op = "export") =>
             LET store == StoreOf(resp'.user)
             IN  /\ USER_CACHE'[resp'.user] = store
                 /\ resp'.format = "json" => resp'.cache = store
                 /\ resp'.format = "csv" =>
                        /\ \A k \in DOMAIN store :
                               <<k, store[k].source, store[k].timestamp, store[k].expiry>>
                                   \in resp'.rows
                        /\ Cardinality(resp'.rows) = Cardinality(DOMAIN store)
       /\ SearchStep =>
             LET u == resp'.user
                 k == normalize_query(resp'.query)
                 store == StoreOf(u)
             IN  (k \notin DOMAIN store /\
                    \E m \in get_close_matches(k, DOMAIN store) :
                        now - store[m].timestamp >= CACHE_EXPIRY_SECONDS)
                   => /\ resp'.source = "backend"
                      /\ DOMAIN USER_CACHE'[u] = DOMAIN store \cup {k}
                      /\ USER_CACHE'[u][k].source = "backend"
                      /\ USER_CACHE'[u][k].timestamp = now
                      /\ \A m \in DOMAIN store : USER_CACHE'[u][m] = store[m]]_vars

\* A csv export lists an entry that expired and, beside it, the backend
\* entry of a search whose fuzzy match that expired entry was.
C19_Witness ==
    /\ resp.op = "export"
    /\ resp.format = "csv"
    /\ LET store == USER_CACHE[resp.user]
       IN  \E m, k \in DOMAIN store :
              /\ now - store[m].timestamp >= CACHE_EXPIRY_SECONDS
              /\ <<m, store[m].source, store[m].timestamp, store[m].expiry>> \in resp.rows
              /\ store[k].source = "backend"
              /\ store[k].timestamp = now
              /\ get_close_matches(k, DOMAIN store \ {k}) = {m}

\* -------------------------------------------------------------- C20
\* C20: a search that resolves as a hit, exact or fuzzy, leaves the user's
\* store as it was (no timestamp moved, no source changed, no entry made at
\* the searched key); a search that resolves as a miss changes the store at
\* the searched normalized key only, where it puts the backend entry.
C20_HitLeavesStore ==
    [][SearchStep =>
          LET u == resp'.user
              k == normalize_query(resp'.query)
              store == StoreOf(u)
          IN  /\ resp'.source \in HitSources => USER_CACHE'[u] = store
              /\ resp'.source = "backend" =>
                    /\ DOMAIN USER_CACHE'[u] = DOMAIN store \cup {k}
                    /\ \A k2 \in DOMAIN store \ {k} : USER_CACHE'[u][k2] = store[k2]
                    /\ USER_CACHE'[u][k] =
                           [result |-> <<"Backend result for", resp'.query>>,
                            timestamp |-> now, expiry |-> CACHE_EXPIRY_SECONDS,
                            source |-> "backend"]
              /\ \A b \in DOMAIN USER_CACHE \ {u} : USER_CACHE'[b] = USER_CACHE[b]]_vars

\* A fuzzy hit late in the life of the matched entry: the store has no
\* entry at the searched key, and the matched entry still has the time it
\* was created.
C20_Witness ==
    /\ resp.op = "search"
    /\ resp.source = "fuzzy_cache"
    /\ LET store == USER_CACHE[resp.user]
       IN  /\ normalize_query(resp.query) \notin DOMAIN store
           /\ \E m \in DOMAIN store :
                 /\ store[m].result = resp.result
                 /\ now - store[m].timestamp = CACHE_EXPIRY_SECONDS - 1

\* ------------------------------------------------------ reachability
\* The second of two identical searches found the first one's backend entry
\* overwritten by a prefetch thread that had passed its check before.
C3_RaceReached ==
    /\ resp.op = "search"
    /\ resp.source = "predicted"
    /\ LET log == trace[resp.user]
       IN  /\ Len(log) >= 2
           /\ log[Len(log) - 1].query = resp.query
           /\ log[Len(log) - 1].source = "backend"
           /\ Lookups(log, normalize_query(resp.query)) = {Len(log) - 1, Len(log)}

====
